---- MODULE Spec2Model ----
(***************************************************************************)
(* anthill-dlc, src/model/bundle.py: the bundle metadata table, the        *)
(* artifact files under data_location, and the coroutines of BundlesModel  *)
(* and BundleQuery.  Every coroutine is cut at its `yield` points: one     *)
(* action is one storage-engine call (or one producer event) together with *)
(* the synchronous code that runs until the next `yield`.                   *)
(***************************************************************************)
EXTENDS Integers, Sequences, FiniteSets, TLC

(***************************************************************************)
(* Bounds of the model.                                                    *)
(***************************************************************************)
MaxId == 2          \* rows ever inserted (AUTO_INCREMENT values handed out)
MaxDeletes == 1     \* rows deleted in the upload pipeline
MaxUploads == 1     \* upload_bundle calls in one behaviour
MaxUpdates == 2     \* UPDATE statements that change a row, in one behaviour
MaxLimit == 2       \* the largest limit a query asks for
MaxOffset == 2      \* the largest offset a query asks for
MaxChunks == 2      \* chunks one producer pushes
NumTasks == 2       \* coroutines that may be in flight

Tasks == 1..NumTasks
Pair == {1, 2}      \* the two callers of a claim about two concurrent calls
GameSpaces == {1, 2}
DataIds == {1, 2}
Names == {"a", "b"}
Keys == {"", "k"}
Urls == {"http://u"}
BundleIds == 1..(MaxId + 1)
DbMessage == "server has gone away"
data_location == "/data"

(***************************************************************************)
(* Values.  A nullable column or a None is the empty set, a value v is {v}.*)
(***************************************************************************)
None == {}
Some(v) == {v}
The(o) == CHOOSE v \in o : TRUE

RECURSIVE Concat(_)
Concat(ss) == IF ss = <<>> THEN <<>> ELSE Head(ss) \o Concat(Tail(ss))

\* the chunks a producer may push: one byte, two bytes
Chunks == {<<97>>, <<98, 97>>}

(***************************************************************************)
(* JSON values handed to create_bundle / update_bundle_properties, and     *)
(* ujson.dumps / the engine's decoding of a JSON column, over tokens.      *)
(***************************************************************************)
JNull == [t |-> "null"]
JNum == [t |-> "num", n |-> 1]
JStr == [t |-> "str", s |-> "x"]
JList == [t |-> "list", items |-> <<JNum>>]
JDict(items) == [t |-> "dict", items |-> items]
JEmpty == JDict(<<>>)
JTagA == JDict(<< <<"a", JNum>> >>)
JTagB == JDict(<< <<"a", JStr>>, <<"b", JNum>> >>)

NonMappings == {JNull, JNum, JStr, JList}

isinstance_dict(j) == j.t = "dict"

\* Python truthiness of the query's fields: None, "" and {} are false
TruthyStatus(o) == o # None /\ The(o) # ""
TruthyFilters(o) == o # None /\ The(o).items # <<>>

dumps_scalar(j) ==
    CASE j.t = "null" -> <<"null">>
      [] j.t = "num"  -> <<ToString(j.n)>>
      [] j.t = "str"  -> <<"\"" \o j.s \o "\"">>

RECURSIVE dumps_items(_)
dumps_items(items) ==
    IF items = <<>> THEN <<>>
    ELSE LET kv == Head(items)
         IN  <<"\"" \o kv[1] \o "\"", ":">> \o dumps_scalar(kv[2])
             \o (IF Tail(items) = <<>> THEN <<>> ELSE <<",">> \o dumps_items(Tail(items)))

RECURSIVE dumps_list(_)
dumps_list(items) ==
    IF items = <<>> THEN <<>>
    ELSE dumps_scalar(Head(items))
         \o (IF Tail(items) = <<>> THEN <<>> ELSE <<",">> \o dumps_list(Tail(items)))

dumps(j) ==
    CASE j.t = "dict" -> <<"{">> \o dumps_items(j.items) \o <<"}">>
      [] j.t = "list" -> <<"[">> \o dumps_list(j.items) \o <<"]">>
      [] OTHER        -> dumps_scalar(j)

\* the database layer (common.database) decoding a JSON column it hands back
loads_scalar(tok) ==
    IF tok = "null" THEN JNull
    ELSE IF tok = "\"x\"" THEN JStr
    ELSE [t |-> "num", n |-> CHOOSE n \in 0..9 : ToString(n) = tok]

loads_key(tok) == CHOOSE k \in {"a", "b", "x"} : "\"" \o k \o "\"" = tok

\* toks is the text between the braces: key : value [, key : value]*
RECURSIVE loads_items(_)
loads_items(toks) ==
    IF toks = <<>> THEN <<>>
    ELSE << <<loads_key(toks[1]), loads_scalar(toks[3])>> >>
         \o (IF Len(toks) > 3 THEN loads_items(SubSeq(toks, 5, Len(toks))) ELSE <<>>)

RECURSIVE loads_list(_)
loads_list(toks) ==
    IF toks = <<>> THEN <<>>
    ELSE <<loads_scalar(toks[1])>>
         \o (IF Len(toks) > 1 THEN loads_list(SubSeq(toks, 3, Len(toks))) ELSE <<>>)

loads(toks) ==
    IF toks[1] = "{" THEN JDict(loads_items(SubSeq(toks, 2, Len(toks) - 1)))
    ELSE IF toks[1] = "[" THEN [t |-> "list", items |-> loads_list(SubSeq(toks, 2, Len(toks) - 1))]
    ELSE loads_scalar(toks[1])

(***************************************************************************)
(* hashlib.sha256: an incremental digest (a running state, update per      *)
(* chunk, hexdigest at the end), here an 8-bit stand-in for the 256-bit    *)
(* one.                                                                    *)
(***************************************************************************)
HASH_METHOD == 5

RECURSIVE hash_update(_, _)
hash_update(h, data) ==
    IF data = <<>> THEN h
    ELSE hash_update((h * 33 + Head(data)) % 256, Tail(data))

HexDigit(n) == <<"0", "1", "2", "3", "4", "5", "6", "7", "8", "9", "a", "b", "c", "d", "e", "f">>[n + 1]
hexdigest(h) == HexDigit(h \div 16) \o HexDigit(h % 16)

Digest(data) == hexdigest(hash_update(HASH_METHOD, data))

(***************************************************************************)
(* Paths (os.path.join over strings) and the file store.                   *)
(***************************************************************************)
str(n) == ToString(n)
path_join(a, b) == a \o "/" \o b

get_key_without_id(bundle) == bundle.key

\* BundleAdapter.get_key
get_key(bundle) == str(bundle.bundle_id) \o "_" \o bundle.key

\* BundlesModel.bundle_directory
bundle_directory(app_id, data_id) == path_join(path_join(data_location, str(app_id)), str(data_id))

\* BundlesModel.bundle_path
bundle_path(app_id, data_id, bundle) == path_join(bundle_directory(app_id, data_id), get_key(bundle))

\* the path delete_bundle computes
delete_path(app_id, data_id, bundle_id) == path_join(bundle_directory(app_id, data_id), str(bundle_id))

\* os.makedirs: the directory and its parents
makedirs(ds, app_id, data_id) ==
    ds \cup {data_location, path_join(data_location, str(app_id)), bundle_directory(app_id, data_id)}

open_keeps_content(fs, path) ==
    [p \in DOMAIN fs \cup {path} |-> IF p \in DOMAIN fs THEN fs[p] ELSE <<>>]

\* open(path, 'wb'): the file exists and is empty
open_wb(fs, path) == [p \in DOMAIN fs \cup {path} |-> IF p = path THEN <<>> ELSE fs[p]]

\* file.write through a handle at offset pos (a hole reads as zero bytes; a
\* write to a file that was unlinked meanwhile does not bring the path back)
file_write(fs, path, pos, data) ==
    LET old == fs[path]
        n == IF pos + Len(data) > Len(old) THEN pos + Len(data) ELSE Len(old)
        new == [i \in 1..n |-> IF i > pos /\ i <= pos + Len(data) THEN data[i - pos]
                               ELSE IF i <= Len(old) THEN old[i] ELSE 0]
    IN  IF path \in DOMAIN fs THEN [fs EXCEPT ![path] = new] ELSE fs

\* os.remove that succeeded
remove_file(fs, path) == [p \in DOMAIN fs \ {path} |-> fs[p]]

(***************************************************************************)
(* State.                                                                  *)
(***************************************************************************)
VARIABLES
    rows,        \* the `bundles` table: a set of rows
    nextId,      \* the table's AUTO_INCREMENT counter
    found_rows,  \* what FOUND_ROWS() answers on the shared connection
    files,       \* the files under data_location: path -> bytes
    dirs,        \* the directories under data_location
    pc,          \* per task: "idle", a suspension point of a coroutine, or "done"
    loc,         \* per task: the locals of the suspended coroutine
    last,        \* per task: how the finished call ended (what its Future holds)
    quota,       \* mutations the behaviour may still make, per kind
    world,       \* the argument values the callers of this behaviour use
    given        \* history: per row of the table, the arguments of the
                 \* create_bundle call that inserted it

vars == <<rows, nextId, found_rows, files, dirs, pc, loc, last, quota, world, given>>

STATUS_CREATED == "CREATED"
STATUS_UPLOADED == "UPLOADED"
STATUS_DELIVERING == "DELIVERING"
STATUS_DELIVERED == "DELIVERED"
STATUS_ERROR == "ERROR"

NoLocals == [op |-> "none"]
NoResult == [op |-> "none"]

\* BundleAdapter.__init__ (the engine hands JSON columns over decoded)
BundleAdapter(data) ==
    [bundle_id |-> data.bundle_id,
     version   |-> data.version_id,
     name      |-> data.bundle_name,
     hash      |-> data.bundle_hash,
     url       |-> data.bundle_url,
     status    |-> data.bundle_status,
     size      |-> data.bundle_size,
     filters   |-> loads(data.bundle_filters),
     payload   |-> loads(data.bundle_payload),
     key       |-> data.bundle_key]

NewRow_swapped(id, gamespace_id, data_id, bundle_name, bundle_filters, bundle_payload, bundle_key) ==
    [bundle_id      |-> id,
     version_id     |-> data_id,
     gamespace_id   |-> gamespace_id,
     bundle_name    |-> bundle_name,
     bundle_status  |-> "CREATED",
     bundle_hash    |-> None,
     bundle_url     |-> None,
     bundle_size    |-> None,
     bundle_filters |-> dumps(bundle_payload),
     bundle_payload |-> dumps(bundle_filters),
     bundle_key     |-> bundle_key]

\* the row INSERTed by create_bundle; columns not listed take their default NULL
NewRow(id, gamespace_id, data_id, bundle_name, bundle_filters, bundle_payload, bundle_key) ==
    [bundle_id      |-> id,
     version_id     |-> data_id,
     gamespace_id   |-> gamespace_id,
     bundle_name    |-> bundle_name,
     bundle_status  |-> STATUS_CREATED,
     bundle_hash    |-> None,
     bundle_url     |-> None,
     bundle_size    |-> None,
     bundle_filters |-> dumps(bundle_filters),
     bundle_payload |-> dumps(bundle_payload),
     bundle_key     |-> bundle_key]

\* rows ordered by bundle_id descending (ORDER BY `bundle_id` DESC)
RECURSIVE OrderDesc(_)
OrderDesc(rs) ==
    IF rs = {} THEN <<>>
    ELSE LET top == CHOOSE r \in rs : \A q \in rs : q.bundle_id <= r.bundle_id
         IN  <<top>> \o OrderDesc(rs \ {top})

MapAdapter(rowseq) == [i \in 1..Len(rowseq) |-> BundleAdapter(rowseq[i])]

\* a storage-engine call that raised DatabaseError, in the log of a call
Failed(call) == call \o ": DatabaseError"

\* how a call ends
Returned(op, args, value, calls) ==
    [op |-> op, args |-> args, outcome |-> "return", exc |-> "", message |-> "",
     value |-> value, calls |-> calls, note |-> None]
Raised(op, args, exc, message, calls) ==
    [op |-> op, args |-> args, outcome |-> "raise", exc |-> exc, message |-> message,
     value |-> None, calls |-> calls, note |-> None]

Finish(t, result) ==
    /\ pc' = [pc EXCEPT ![t] = "done"]
    /\ loc' = [loc EXCEPT ![t] = NoLocals]
    /\ last' = [last EXCEPT ![t] = result]

Suspend(t, at, locals) ==
    /\ pc' = [pc EXCEPT ![t] = at]
    /\ loc' = [loc EXCEPT ![t] = locals]
    /\ UNCHANGED last

\* the caller takes the result of the finished call; the task may call again
Release(t) ==
    /\ pc[t] = "done"
    /\ pc' = [pc EXCEPT ![t] = "idle"]
    /\ last' = [last EXCEPT ![t] = NoResult]
    /\ UNCHANGED <<rows, nextId, found_rows, files, dirs, loc, quota, world, given>>

(***************************************************************************)
(* Lookups.                                                                *)
(***************************************************************************)
SelectById_any_gamespace(gamespace_id, bundle_id) ==
    {r \in rows : r.bundle_id = bundle_id}

SelectById(gamespace_id, bundle_id) ==
    {r \in rows : r.bundle_id = bundle_id /\ r.gamespace_id = gamespace_id}

SelectByName_swapped(gamespace_id, data_id, bundle_name) ==
    {r \in rows : r.version_id = gamespace_id /\ r.bundle_name = bundle_name
                  /\ r.gamespace_id = data_id}

SelectByName(gamespace_id, data_id, bundle_name) ==
    {r \in rows : r.version_id = data_id /\ r.bundle_name = bundle_name
                  /\ r.gamespace_id = gamespace_id}

SelectScope(gamespace_id, data_id) ==
    {r \in rows : r.version_id = data_id /\ r.gamespace_id = gamespace_id}

get_bundle(t) ==
    /\ pc[t] = "idle"
    /\ \E gamespace_id \in world.gamespaces, bundle_id \in BundleIds, dbok \in world.engine :
        LET args == [gamespace_id |-> gamespace_id, bundle_id |-> bundle_id]
            found == SelectById(gamespace_id, bundle_id)
        IN  IF ~dbok
            THEN /\ Finish(t, Raised("get_bundle", args, "BundleError",
                                     "Failed to get bundle: " \o DbMessage, <<Failed("db.get")>>))
                 /\ UNCHANGED found_rows
            ELSE /\ found_rows' = Cardinality(found)
                 /\ IF found = {}
                    THEN Finish(t, Raised("get_bundle", args, "NoSuchBundleError", "", <<"db.get">>))
                    ELSE \E bundle \in found :
                            Finish(t, Returned("get_bundle", args, BundleAdapter(bundle), <<"db.get">>))
    /\ UNCHANGED <<rows, nextId, files, dirs, quota, world, given>>

find_bundle(t) ==
    /\ pc[t] = "idle"
    /\ \E gamespace_id \in world.gamespaces, data_id \in world.data_ids, bundle_name \in world.names, dbok \in world.engine :
        LET args == [gamespace_id |-> gamespace_id, data_id |-> data_id, bundle_name |-> bundle_name]
            found == SelectByName(gamespace_id, data_id, bundle_name)
        IN  IF ~dbok
            THEN /\ Finish(t, Raised("find_bundle", args, "BundleError",
                                     "Failed to find bundle: " \o DbMessage, <<Failed("db.get")>>))
                 /\ UNCHANGED found_rows
            ELSE /\ found_rows' = Cardinality(found)
                 /\ IF found = {}
                    THEN Finish(t, Raised("find_bundle", args, "NoSuchBundleError", "", <<"db.get">>))
                    ELSE \E bundle \in found :
                            Finish(t, Returned("find_bundle", args, BundleAdapter(bundle), <<"db.get">>))
    /\ UNCHANGED <<rows, nextId, files, dirs, quota, world, given>>

list_bundles(t) ==
    /\ pc[t] = "idle"
    /\ \E gamespace_id \in world.gamespaces, data_id \in world.data_ids, dbok \in world.engine :
        LET args == [gamespace_id |-> gamespace_id, data_id |-> data_id]
            found == SelectScope(gamespace_id, data_id)
        IN  IF ~dbok
            THEN /\ Finish(t, Raised("list_bundles", args, "BundleError",
                                     "Failed to list bundles: " \o DbMessage, <<Failed("db.query")>>))
                 /\ UNCHANGED found_rows
            ELSE /\ found_rows' = Cardinality(found)
                 /\ Finish(t, Returned("list_bundles", args, MapAdapter(OrderDesc(found)), <<"db.query">>))
    /\ UNCHANGED <<rows, nextId, files, dirs, quota, world, given>>

(***************************************************************************)
(* create_bundle: validation and the find_bundle check up to the INSERT's  *)
(* `yield`, then the INSERT.                                               *)
(***************************************************************************)
create_checks_filters_only(bundle_filters, bundle_payload) ==
    IF ~isinstance_dict(bundle_filters) THEN "bundle_filters should be a dict" ELSE ""

\* the two isinstance checks at the head of create_bundle: the message of the
\* BundleError raised, "" when both pass
create_checks(bundle_filters, bundle_payload) ==
    IF ~isinstance_dict(bundle_filters) THEN "bundle_filters should be a dict"
    ELSE IF ~isinstance_dict(bundle_payload) THEN "bundle_payload should be a dict"
    ELSE ""

create_bundle(t) ==
    /\ pc[t] = "idle"
    /\ \E gamespace_id \in world.gamespaces, data_id \in world.data_ids, bundle_name \in world.names,
          bundle_filters \in world.filters, bundle_payload \in world.payloads,
          bundle_key \in world.keys, dbok \in world.engine :
        LET args == [gamespace_id |-> gamespace_id, data_id |-> data_id,
                     bundle_name |-> bundle_name, bundle_filters |-> bundle_filters,
                     bundle_payload |-> bundle_payload, bundle_key |-> bundle_key]
            found == SelectByName(gamespace_id, data_id, bundle_name)
        IN  IF create_checks(bundle_filters, bundle_payload) # ""
            THEN /\ Finish(t, Raised("create_bundle", args, "BundleError",
                                     create_checks(bundle_filters, bundle_payload), <<>>))
                 /\ UNCHANGED <<found_rows, quota>>
            ELSE IF ~dbok
            THEN /\ Finish(t, Raised("create_bundle", args, "BundleError",
                                     "Failed to find bundle: " \o DbMessage, <<Failed("db.get")>>))
                 /\ UNCHANGED <<found_rows, quota>>
            ELSE /\ found_rows' = Cardinality(found)
                 /\ IF found # {}
                    THEN /\ Finish(t, Raised("create_bundle", args, "BundleError",
                                             "Bundle with such name already exists", <<"db.get">>))
                         /\ UNCHANGED quota
                    ELSE /\ quota.create > 0
                         /\ quota' = [quota EXCEPT !.create = @ - 1]
                         /\ Suspend(t, "create_insert",
                                    [op |-> "create_bundle", args |-> args, calls |-> <<"db.get">>])
    /\ UNCHANGED <<rows, nextId, files, dirs, world, given>>

create_insert_rechecks(t) ==
    /\ pc[t] = "create_insert"
    /\ \E dbok \in world.engine :
        LET a == loc[t].args
            calls == Append(loc[t].calls, IF dbok THEN "db.insert" ELSE Failed("db.insert"))
        IN  IF ~dbok
            THEN /\ Finish(t, Raised("create_bundle", a, "BundleError",
                                     "Failed to create bundle: " \o DbMessage, calls))
                 /\ UNCHANGED <<rows, nextId, given>>
            ELSE IF SelectByName(a.gamespace_id, a.data_id, a.bundle_name) # {}
            THEN /\ Finish(t, Raised("create_bundle", a, "BundleError",
                                     "Bundle with such name already exists", calls))
                 /\ UNCHANGED <<rows, nextId, given>>
            ELSE /\ rows' = rows \cup {NewRow(nextId, a.gamespace_id, a.data_id, a.bundle_name,
                                              a.bundle_filters, a.bundle_payload, a.bundle_key)}
                 /\ nextId' = nextId + 1
                 /\ given' = [id \in DOMAIN given \cup {nextId} |->
                                 IF id = nextId THEN a ELSE given[id]]
                 /\ Finish(t, Returned("create_bundle", a, nextId, calls))
    /\ UNCHANGED <<found_rows, files, dirs, quota, world>>

\* the INSERT of create_bundle, after the suspension that follows the check
create_insert(t) ==
    /\ pc[t] = "create_insert"
    /\ \E dbok \in world.engine :
        LET a == loc[t].args
            calls == Append(loc[t].calls, IF dbok THEN "db.insert" ELSE Failed("db.insert"))
        IN  IF ~dbok
            THEN /\ Finish(t, Raised("create_bundle", a, "BundleError",
                                     "Failed to create bundle: " \o DbMessage, calls))
                 /\ UNCHANGED <<rows, nextId, given>>
            ELSE /\ rows' = rows \cup {NewRow(nextId, a.gamespace_id, a.data_id, a.bundle_name,
                                              a.bundle_filters, a.bundle_payload, a.bundle_key)}
                 /\ nextId' = nextId + 1
                 /\ given' = [id \in DOMAIN given \cup {nextId} |->
                                 IF id = nextId THEN a ELSE given[id]]
                 /\ Finish(t, Returned("create_bundle", a, nextId, calls))
    /\ UNCHANGED <<found_rows, files, dirs, quota, world>>

(***************************************************************************)
(* delete_bundle: get_bundle and os.remove up to the DELETE's `yield`,     *)
(* then the DELETE.                                                        *)
(***************************************************************************)
except_nothing(exc) == FALSE

\* `except OSError: pass` around os.remove: what the clause catches
except_OSError(exc) == exc = "OSError"

delete_bundle(t) ==
    /\ pc[t] = "idle"
    /\ \E gamespace_id \in world.gamespaces, app_id \in world.apps, bundle_id \in BundleIds,
          dbok \in world.engine, rmok \in world.disk :
        LET args == [gamespace_id |-> gamespace_id, app_id |-> app_id, bundle_id |-> bundle_id]
            found == SelectById(gamespace_id, bundle_id)
        IN  IF ~dbok
            THEN /\ Finish(t, Raised("delete_bundle", args, "BundleError",
                                     "Failed to get bundle: " \o DbMessage, <<Failed("db.get")>>))
                 /\ UNCHANGED <<found_rows, files, quota>>
            ELSE /\ found_rows' = Cardinality(found)
                 /\ IF found = {}
                    THEN /\ Finish(t, Raised("delete_bundle", args, "NoSuchBundleError", "", <<"db.get">>))
                         /\ UNCHANGED <<files, quota>>
                    ELSE \E row \in found :
                         LET bundle == BundleAdapter(row)
                             data_id == bundle.version
                             bundle_file == delete_path(app_id, data_id, bundle_id)
                             removed == bundle_file \in DOMAIN files /\ rmok
                             calls == <<"db.get", IF removed THEN "os.remove"
                                                  ELSE "os.remove: OSError">>
                         IN  /\ files' = IF removed THEN remove_file(files, bundle_file) ELSE files
                             /\ IF ~removed /\ ~except_OSError("OSError")
                                THEN /\ Finish(t, Raised("delete_bundle", args, "OSError", "", calls))
                                     /\ UNCHANGED quota
                                ELSE /\ quota.delete > 0
                                     /\ quota' = [quota EXCEPT !.delete = @ - 1]
                                     /\ Suspend(t, "delete_exec",
                                                [op |-> "delete_bundle", args |-> args,
                                                 bundle |-> bundle, bundle_file |-> bundle_file,
                                                 calls |-> calls])
    /\ UNCHANGED <<rows, nextId, dirs, world, given>>

delete_exec(t) ==
    /\ pc[t] = "delete_exec"
    /\ \E dbok \in world.engine :
        LET a == loc[t].args
            calls == Append(loc[t].calls, IF dbok THEN "db.execute" ELSE Failed("db.execute"))
        IN  IF ~dbok
            THEN /\ Finish(t, [Raised("delete_bundle", a, "BundleError",
                                      "Failed to delete bundle: " \o DbMessage, calls)
                               EXCEPT !.note = Some(loc[t].bundle)])
                 /\ UNCHANGED <<rows, given>>
            ELSE /\ rows' = rows \ SelectById(a.gamespace_id, a.bundle_id)
                 /\ given' = [id \in {r.bundle_id : r \in rows'} |-> given[id]]
                 /\ Finish(t, [Returned("delete_bundle", a, None, calls)
                               EXCEPT !.note = Some(loc[t].bundle)])
    /\ UNCHANGED <<nextId, found_rows, files, dirs, quota, world>>

(***************************************************************************)
(* The four UPDATE statements.                                             *)
(***************************************************************************)
Matches_any_gamespace(r, gamespace_id, bundle_id) == r.bundle_id = bundle_id

\* WHERE `bundle_id`=%s AND `gamespace_id`=%s
Matches(r, gamespace_id, bundle_id) == r.bundle_id = bundle_id /\ r.gamespace_id = gamespace_id

SetProperties_resets_status(rs, gamespace_id, bundle_id, bundle_filters, bundle_payload) ==
    {IF Matches(r, gamespace_id, bundle_id)
     THEN [r EXCEPT !.bundle_filters = dumps(bundle_filters),
                    !.bundle_payload = dumps(bundle_payload),
                    !.bundle_status = "CREATED"]
     ELSE r : r \in rs}

SetProperties_clears_hash(rs, gamespace_id, bundle_id, bundle_filters, bundle_payload) ==
    {IF Matches(r, gamespace_id, bundle_id)
     THEN [r EXCEPT !.bundle_filters = dumps(bundle_filters),
                    !.bundle_payload = dumps(bundle_payload),
                    !.bundle_hash = None]
     ELSE r : r \in rs}

SetProperties(rs, gamespace_id, bundle_id, bundle_filters, bundle_payload) ==
    {IF Matches(r, gamespace_id, bundle_id)
     THEN [r EXCEPT !.bundle_filters = dumps(bundle_filters), !.bundle_payload = dumps(bundle_payload)]
     ELSE r : r \in rs}

SetBundle_upserts(rs, gamespace_id, bundle_id, bundle_hash, bundle_status, bundle_size) ==
    IF \E r \in rs : Matches(r, gamespace_id, bundle_id)
    THEN {IF Matches(r, gamespace_id, bundle_id)
          THEN [r EXCEPT !.bundle_hash = Some(bundle_hash), !.bundle_status = bundle_status,
                         !.bundle_size = Some(bundle_size)]
          ELSE r : r \in rs}
    ELSE rs \cup {[NewRow(bundle_id, gamespace_id, 1, "", JEmpty, JEmpty, "")
                   EXCEPT !.bundle_hash = Some(bundle_hash), !.bundle_status = bundle_status,
                          !.bundle_size = Some(bundle_size)]}

SetBundle(rs, gamespace_id, bundle_id, bundle_hash, bundle_status, bundle_size) ==
    {IF Matches(r, gamespace_id, bundle_id)
     THEN [r EXCEPT !.bundle_hash = Some(bundle_hash), !.bundle_status = bundle_status,
                    !.bundle_size = Some(bundle_size)]
     ELSE r : r \in rs}

SetStatus_resets_size(rs, gamespace_id, bundle_id, bundle_status) ==
    {IF Matches(r, gamespace_id, bundle_id)
     THEN [r EXCEPT !.bundle_status = bundle_status, !.bundle_size = None]
     ELSE r : r \in rs}

SetStatus(rs, gamespace_id, bundle_id, bundle_status) ==
    {IF Matches(r, gamespace_id, bundle_id)
     THEN [r EXCEPT !.bundle_status = bundle_status]
     ELSE r : r \in rs}

SetUrl(rs, gamespace_id, bundle_id, bundle_status, bundle_url) ==
    {IF Matches(r, gamespace_id, bundle_id)
     THEN [r EXCEPT !.bundle_status = bundle_status, !.bundle_url = Some(bundle_url)]
     ELSE r : r \in rs}

\* one db.execute of an UPDATE and the end of the call (the note is the
\* engine's count of rows changed, which the callers drop)
ExecUpdate(t, op, args, newrows, failure) ==
    \E dbok \in world.engine :
        IF ~dbok
        THEN /\ Finish(t, Raised(op, args, "BundleError", failure \o DbMessage,
                                 <<Failed("db.execute")>>))
             /\ UNCHANGED <<rows, quota>>
        ELSE /\ rows' = newrows
             /\ IF newrows = rows THEN UNCHANGED quota
                ELSE quota.update > 0 /\ quota' = [quota EXCEPT !.update = @ - 1]
             /\ Finish(t, [Returned(op, args, None, <<"db.execute">>)
                           EXCEPT !.note = Some(Cardinality(rows \ newrows))])

update_bundle_properties(t) ==
    /\ pc[t] = "idle"
    /\ \E gamespace_id \in world.gamespaces, bundle_id \in BundleIds,
          bundle_filters \in world.new_filters, bundle_payload \in world.new_payloads :
        LET args == [gamespace_id |-> gamespace_id, bundle_id |-> bundle_id,
                     bundle_filters |-> bundle_filters, bundle_payload |-> bundle_payload]
        IN  IF ~isinstance_dict(bundle_filters)
            THEN /\ Finish(t, Raised("update_bundle_properties", args, "BundleError",
                                     "bundle_filters should be a dict", <<>>))
                 /\ UNCHANGED <<rows, quota>>
            ELSE ExecUpdate(t, "update_bundle_properties", args,
                            SetProperties(rows, gamespace_id, bundle_id, bundle_filters, bundle_payload),
                            "Failed to update bundle: ")
    /\ UNCHANGED <<nextId, found_rows, files, dirs, world, given>>

update_bundle(t) ==
    /\ pc[t] = "idle"
    /\ \E gamespace_id \in world.gamespaces, bundle_id \in BundleIds, bundle_hash \in {Digest(<<98>>)},
          bundle_status \in world.statuses, bundle_size \in {1} :
        LET args == [gamespace_id |-> gamespace_id, bundle_id |-> bundle_id,
                     bundle_hash |-> bundle_hash, bundle_status |-> bundle_status,
                     bundle_size |-> bundle_size]
        IN  ExecUpdate(t, "update_bundle", args,
                       SetBundle(rows, gamespace_id, bundle_id, bundle_hash, bundle_status, bundle_size),
                       "Failed to update bundle: ")
    /\ UNCHANGED <<nextId, found_rows, files, dirs, world, given>>

update_bundle_status(t) ==
    /\ pc[t] = "idle"
    /\ \E gamespace_id \in world.gamespaces, bundle_id \in BundleIds, bundle_status \in world.statuses :
        LET args == [gamespace_id |-> gamespace_id, bundle_id |-> bundle_id,
                     bundle_status |-> bundle_status]
        IN  ExecUpdate(t, "update_bundle_status", args,
                       SetStatus(rows, gamespace_id, bundle_id, bundle_status),
                       "Failed to update bundle status: ")
    /\ UNCHANGED <<nextId, found_rows, files, dirs, world, given>>

update_bundle_url(t) ==
    /\ pc[t] = "idle"
    /\ \E gamespace_id \in world.gamespaces, bundle_id \in BundleIds, bundle_status \in world.statuses,
          bundle_url \in Urls :
        LET args == [gamespace_id |-> gamespace_id, bundle_id |-> bundle_id,
                     bundle_status |-> bundle_status, bundle_url |-> bundle_url]
        IN  ExecUpdate(t, "update_bundle_url", args,
                       SetUrl(rows, gamespace_id, bundle_id, bundle_status, bundle_url),
                       "Failed to update bundle status: ")
    /\ UNCHANGED <<nextId, found_rows, files, dirs, world, given>>

(***************************************************************************)
(* upload_bundle: makedirs and open, then the producer's events (a chunk   *)
(* pushed to the sink `write`, the producer failing, the producer          *)
(* completing), then the UPDATE of update_bundle.                          *)
(***************************************************************************)
upload_bundle(t) ==
    /\ pc[t] = "idle"
    /\ quota.upload > 0
    /\ quota' = [quota EXCEPT !.upload = @ - 1]
    /\ \E gamespace_id \in world.gamespaces, app_id \in world.apps, row \in rows, fsok \in world.disk :
        LET bundle == BundleAdapter(row)
            args == [gamespace_id |-> gamespace_id, app_id |-> app_id, bundle |-> bundle]
            bundle_id == bundle.bundle_id
            data_id == bundle.version
            bundle_file == bundle_path(app_id, data_id, bundle)
        IN  /\ dirs' = IF bundle_directory(app_id, data_id) \notin dirs
                       THEN makedirs(dirs, app_id, data_id) ELSE dirs
            /\ IF ~fsok
               THEN /\ Finish(t, Raised("upload_bundle", args, "IOError", "", <<"open: IOError">>))
                    /\ UNCHANGED files
               ELSE /\ files' = open_wb(files, bundle_file)
                    /\ Suspend(t, "upload_produce",
                               [op |-> "upload_bundle", args |-> args, bundle_file |-> bundle_file,
                                pos |-> 0, h |-> HASH_METHOD, bundle_size |-> 0,
                                delivered |-> <<>>, calls |-> <<"open">>])
    /\ UNCHANGED <<rows, nextId, found_rows, world, given>>

write_counts_chunks(t, data) ==
    /\ files' = file_write(files, loc[t].bundle_file, loc[t].pos, data)
    /\ loc' = [loc EXCEPT ![t].pos = @ + Len(data),
                          ![t].h = hash_update(@, data),
                          ![t].bundle_size = @ + 1,
                          ![t].delivered = Append(@, data),
                          ![t].calls = Append(@, "write")]

\* the nested coroutine `write`
write(t, data) ==
    /\ files' = file_write(files, loc[t].bundle_file, loc[t].pos, data)
    /\ loc' = [loc EXCEPT ![t].pos = @ + Len(data),
                          ![t].h = hash_update(@, data),
                          ![t].bundle_size = @ + Len(data),
                          ![t].delivered = Append(@, data),
                          ![t].calls = Append(@, "write")]

producer_push(t) ==
    /\ pc[t] = "upload_produce"
    /\ Len(loc[t].delivered) < MaxChunks
    /\ \E data \in world.chunks : write(t, data)
    /\ UNCHANGED <<rows, nextId, found_rows, dirs, pc, last, quota, world, given>>

producer_fail_publishes(t) ==
    /\ pc[t] = "upload_produce"
    /\ rows' = SetBundle(rows, loc[t].args.gamespace_id, loc[t].args.bundle.bundle_id,
                         hexdigest(loc[t].h), STATUS_UPLOADED, loc[t].bundle_size)
    /\ Finish(t, [Raised("upload_bundle", loc[t].args, "ProducerError", "", loc[t].calls)
                  EXCEPT !.note = Some([bundle_file |-> loc[t].bundle_file,
                                        delivered |-> loc[t].delivered])])
    /\ UNCHANGED <<nextId, found_rows, files, dirs, quota, world, given>>

\* the producer raises: nothing in upload_bundle catches it
producer_fail(t) ==
    /\ pc[t] = "upload_produce"
    /\ Finish(t, [Raised("upload_bundle", loc[t].args, "ProducerError", "", loc[t].calls)
                  EXCEPT !.note = Some([bundle_file |-> loc[t].bundle_file,
                                        delivered |-> loc[t].delivered])])
    /\ UNCHANGED <<rows, nextId, found_rows, files, dirs, quota, world, given>>

producer_done_sets_status(t) ==
    /\ pc[t] = "upload_produce"
    /\ rows' = SetStatus(rows, loc[t].args.gamespace_id, loc[t].args.bundle.bundle_id,
                         STATUS_UPLOADED)
    /\ Suspend(t, "upload_update",
               [op |-> "upload_bundle", args |-> loc[t].args, bundle_file |-> loc[t].bundle_file,
                bundle_hash |-> hexdigest(loc[t].h), bundle_size |-> loc[t].bundle_size,
                delivered |-> loc[t].delivered, calls |-> Append(loc[t].calls, "close")])
    /\ UNCHANGED <<nextId, found_rows, files, dirs, quota, world, given>>

\* the producer returns: close the file, finalize the hash
producer_done(t) ==
    /\ pc[t] = "upload_produce"
    /\ Suspend(t, "upload_update",
               [op |-> "upload_bundle", args |-> loc[t].args, bundle_file |-> loc[t].bundle_file,
                bundle_hash |-> hexdigest(loc[t].h), bundle_size |-> loc[t].bundle_size,
                delivered |-> loc[t].delivered, calls |-> Append(loc[t].calls, "close")])
    /\ UNCHANGED <<rows, nextId, found_rows, files, dirs, quota, world, given>>

upload_update(t) ==
    /\ pc[t] = "upload_update"
    /\ \E dbok \in world.engine :
        LET a == loc[t].args
            calls == Append(loc[t].calls, IF dbok THEN "db.execute" ELSE Failed("db.execute"))
            matched == IF dbok THEN Cardinality(SelectById(a.gamespace_id, a.bundle.bundle_id))
                       ELSE 0
            note == Some([bundle_file |-> loc[t].bundle_file, delivered |-> loc[t].delivered,
                          matched |-> matched])
        IN  IF ~dbok
            THEN /\ Finish(t, [Raised("upload_bundle", a, "BundleError",
                                      "Failed to update bundle: " \o DbMessage, calls)
                               EXCEPT !.note = note])
                 /\ UNCHANGED rows
            ELSE /\ rows' = SetBundle(rows, a.gamespace_id, a.bundle.bundle_id, loc[t].bundle_hash,
                                      STATUS_UPLOADED, loc[t].bundle_size)
                 /\ Finish(t, [Returned("upload_bundle", a, None, calls) EXCEPT !.note = note])
    /\ UNCHANGED <<nextId, found_rows, files, dirs, quota, world, given>>

(***************************************************************************)
(* BundleQuery.query                                                       *)
(***************************************************************************)
\* format_conditions_json('bundle_filters', filters): every key of the filter
\* is in the column with the same value
format_conditions_json(column, filters) ==
    \A i \in 1..Len(filters.items) :
        \E j \in 1..Len(loads(column).items) : loads(column).items[j] = filters.items[i]

\* BundleQuery.__values__: the conditions, as a predicate on a row
values(q, r) ==
    /\ str(r.gamespace_id) = str(q.gamespace_id)
    /\ str(r.version_id) = str(q.data_id)
    /\ TruthyStatus(q.status) => r.bundle_status = The(q.status)
    /\ TruthyFilters(q.filters) => format_conditions_json(r.bundle_filters, The(q.filters))

Page_swapped(ordered, offset, limit) ==
    IF limit # 0
    THEN SubSeq(ordered, limit + 1, IF limit + offset < Len(ordered) THEN limit + offset ELSE Len(ordered))
    ELSE ordered

\* LIMIT offset,limit over the ordered rows, when self.limit is not zero
Page(ordered, offset, limit) ==
    IF limit # 0
    THEN SubSeq(ordered, offset + 1, IF offset + limit < Len(ordered) THEN offset + limit ELSE Len(ordered))
    ELSE ordered

query(t) ==
    /\ pc[t] = "idle"
    /\ \E gamespace_id \in world.gamespaces, data_id \in world.data_ids,
          status \in world.q_status, filters \in world.q_filters,
          offset \in world.q_offsets, limit \in world.q_limits,
          one \in BOOLEAN, count \in BOOLEAN, dbok \in world.engine :
        LET q == [gamespace_id |-> gamespace_id, data_id |-> data_id, status |-> status,
                  filters |-> filters, offset |-> offset, limit |-> limit]
            args == [q |-> q, one |-> one, count |-> count]
            matching == {r \in rows : values(q, r)}
            result == Page(OrderDesc(matching), offset, limit)
            found == IF count THEN Cardinality(matching) ELSE Len(result)
        IN  IF one
            THEN IF ~dbok
                 THEN /\ Finish(t, Raised("query", args, "BundleQueryError",
                                          "Failed to get message: " \o DbMessage, <<Failed("db.get")>>))
                      /\ UNCHANGED found_rows
                 ELSE /\ found_rows' = found
                      /\ Finish(t, Returned("query", args,
                                            IF result = <<>> THEN None
                                            ELSE Some(BundleAdapter(result[1])), <<"db.get">>))
            ELSE IF ~dbok
                 THEN /\ Finish(t, Raised("query", args, "BundleQueryError",
                                          "Failed to query messages: " \o DbMessage, <<Failed("db.query")>>))
                      /\ UNCHANGED found_rows
                 ELSE /\ found_rows' = found
                      /\ IF count
                         THEN Suspend(t, "query_count",
                                      [op |-> "query", args |-> args, result |-> result,
                                       calls |-> <<"db.query">>])
                         ELSE Finish(t, Returned("query", args, MapAdapter(result), <<"db.query">>))
    /\ UNCHANGED <<rows, nextId, files, dirs, quota, world, given>>

\* SELECT FOUND_ROWS() AS count, outside any try; the statement is itself a
\* SELECT of one row, so FOUND_ROWS() is 1 after it
query_count(t) ==
    /\ pc[t] = "query_count"
    /\ \E dbok \in world.engine :
        LET calls == Append(loc[t].calls, IF dbok THEN "db.get" ELSE Failed("db.get"))
        IN  IF ~dbok
            THEN /\ Finish(t, Raised("query", loc[t].args, "DatabaseError", DbMessage, calls))
                 /\ UNCHANGED found_rows
            ELSE /\ Finish(t, Returned("query", loc[t].args,
                                       [items |-> MapAdapter(loc[t].result), count |-> found_rows], calls))
                 /\ found_rows' = 1
    /\ UNCHANGED <<rows, nextId, files, dirs, quota, world, given>>

(***************************************************************************)
(* Specifications.  Each draws its callers' arguments from a world and     *)
(* allows a number of mutations.                                           *)
(***************************************************************************)
Start ==
    /\ rows = {}
    /\ nextId = 1
    /\ found_rows = 0
    /\ files = <<>>
    /\ dirs = {}
    /\ pc = [t \in Tasks |-> "idle"]
    /\ loc = [t \in Tasks |-> NoLocals]
    /\ last = [t \in Tasks |-> NoResult]
    /\ given = <<>>

\* the store: creation, lookup, listing and deletion over every scope and name
StoreWorld ==
    [gamespaces |-> GameSpaces, data_ids |-> DataIds, names |-> Names, keys |-> {"k"},
     apps |-> {1}, filters |-> {JTagA} \cup NonMappings, payloads |-> {JTagB, JNull, JList},
     new_filters |-> {}, new_payloads |-> {}, statuses |-> {},
     q_status |-> {}, q_filters |-> {}, q_offsets |-> {}, q_limits |-> {},
     chunks |-> {},
     engine |-> BOOLEAN, disk |-> BOOLEAN]

Init ==
    /\ Start
    /\ quota = [create |-> MaxId, delete |-> MaxId, update |-> 0, upload |-> 0]
    /\ world = StoreWorld

Next ==
    \/ Release(1)
    \/ get_bundle(1)
    \/ find_bundle(1)
    \/ list_bundles(1)
    \/ create_bundle(1)
    \/ create_insert(1)
    \/ delete_bundle(1)
    \/ delete_exec(1)

Spec == Init /\ [][Next]_vars

\* the upload pipeline: one bundle at a time, with or without a key, uploaded and
\* deleted under one app
UploadWorld ==
    [gamespaces |-> {1}, data_ids |-> {1}, names |-> {"a"}, keys |-> Keys,
     apps |-> {1}, filters |-> {JTagA}, payloads |-> {JTagB},
     new_filters |-> {}, new_payloads |-> {}, statuses |-> {},
     q_status |-> {}, q_filters |-> {}, q_offsets |-> {}, q_limits |-> {},
     chunks |-> Chunks,
     engine |-> BOOLEAN, disk |-> BOOLEAN]

InitUpload ==
    /\ Start
    /\ quota = [create |-> MaxId, delete |-> MaxDeletes, update |-> 0, upload |-> MaxUploads]
    /\ world = UploadWorld

NextUpload ==
    \/ Release(1)
    \/ create_bundle(1)
    \/ create_insert(1)
    \/ delete_bundle(1)
    \/ delete_exec(1)
    \/ upload_bundle(1)
    \/ producer_push(1)
    \/ producer_fail(1)
    \/ producer_done(1)
    \/ upload_update(1)

SpecUpload == InitUpload /\ [][NextUpload]_vars

\* the UPDATE statements on bundles of one name
UpdateWorld ==
    [gamespaces |-> GameSpaces, data_ids |-> {1}, names |-> {"a"}, keys |-> {"k"},
     apps |-> {1}, filters |-> {JTagA}, payloads |-> {JTagB},
     new_filters |-> {JEmpty, JList}, new_payloads |-> {JNull},
     statuses |-> {STATUS_CREATED, STATUS_UPLOADED, STATUS_DELIVERING},
     q_status |-> {}, q_filters |-> {}, q_offsets |-> {}, q_limits |-> {},
     chunks |-> {},
     engine |-> BOOLEAN, disk |-> BOOLEAN]

InitUpdate ==
    /\ Start
    /\ quota = [create |-> MaxId, delete |-> 0, update |-> MaxUpdates, upload |-> 0]
    /\ world = UpdateWorld

NextUpdate ==
    \/ Release(1)
    \/ get_bundle(1)
    \/ create_bundle(1)
    \/ create_insert(1)
    \/ update_bundle_properties(1)
    \/ update_bundle(1)
    \/ update_bundle_status(1)
    \/ update_bundle_url(1)

SpecUpdate == InitUpdate /\ [][NextUpdate]_vars

\* queries over bundles created or uploaded, with no filters or an empty mapping
QueryWorld ==
    [gamespaces |-> GameSpaces, data_ids |-> {1}, names |-> Names, keys |-> {"k"},
     apps |-> {1}, filters |-> {JTagA}, payloads |-> {JTagB},
     new_filters |-> {}, new_payloads |-> {}, statuses |-> {STATUS_UPLOADED},
     q_status |-> {None, Some(STATUS_UPLOADED)}, q_filters |-> {None, Some(JEmpty)},
     q_offsets |-> 0..MaxOffset, q_limits |-> 0..MaxLimit,
     chunks |-> {},
     engine |-> BOOLEAN, disk |-> BOOLEAN]

InitQuery ==
    /\ Start
    /\ quota = [create |-> MaxId, delete |-> 0, update |-> MaxUpdates, upload |-> 0]
    /\ world = QueryWorld

NextQuery ==
    \/ Release(1)
    \/ create_bundle(1)
    \/ create_insert(1)
    \/ update_bundle_status(1)
    \/ query(1)
    \/ query_count(1)

SpecQuery == InitQuery /\ [][NextQuery]_vars

\* concurrent creators of one name in one scope
RaceWorld ==
    [gamespaces |-> {1}, data_ids |-> {1}, names |-> {"a"}, keys |-> {"k"},
     apps |-> {1}, filters |-> {JTagA}, payloads |-> {JTagB},
     new_filters |-> {}, new_payloads |-> {}, statuses |-> {},
     q_status |-> {}, q_filters |-> {}, q_offsets |-> {}, q_limits |-> {},
     chunks |-> {},
     engine |-> BOOLEAN, disk |-> BOOLEAN]

InitRace ==
    /\ Start
    /\ quota = [create |-> MaxId, delete |-> 0, update |-> 0, upload |-> 0]
    /\ world = RaceWorld

NextRace ==
    \/ \E t \in Tasks : Release(t)
    \/ \E t \in Tasks : find_bundle(t)
    \/ \E t \in Tasks : create_bundle(t)
    \/ \E t \in Tasks : create_insert(t)

SpecRace == InitRace /\ [][NextRace]_vars

\* the whole life of one bundle: created, uploaded, updated, deleted
LifeWorld ==
    [gamespaces |-> {1}, data_ids |-> {1}, names |-> {"a"}, keys |-> {"k"},
     apps |-> {1}, filters |-> {JTagA}, payloads |-> {JTagB},
     new_filters |-> {JEmpty}, new_payloads |-> {JNull},
     statuses |-> {STATUS_CREATED, STATUS_DELIVERING},
     q_status |-> {}, q_filters |-> {}, q_offsets |-> {}, q_limits |-> {},
     chunks |-> {<<97>>},
     engine |-> BOOLEAN, disk |-> BOOLEAN]

InitLife ==
    /\ Start
    /\ quota = [create |-> MaxId, delete |-> MaxDeletes, update |-> MaxUpdates,
                upload |-> MaxUploads]
    /\ world = LifeWorld

NextLife ==
    \/ Release(1)
    \/ create_bundle(1)
    \/ create_insert(1)
    \/ delete_bundle(1)
    \/ delete_exec(1)
    \/ upload_bundle(1)
    \/ producer_push(1)
    \/ producer_fail(1)
    \/ producer_done(1)
    \/ upload_update(1)
    \/ update_bundle_properties(1)
    \/ update_bundle(1)
    \/ update_bundle_status(1)
    \/ update_bundle_url(1)

SpecLife == InitLife /\ [][NextLife]_vars

\* concurrent callers over a healthy engine and disk, on a table that holds two
\* bundles: uploaders, readers and deleters
ConcWorld ==
    [gamespaces |-> {1}, data_ids |-> {1}, names |-> Names, keys |-> {"k"},
     apps |-> {1}, filters |-> {JTagA}, payloads |-> {JTagB},
     new_filters |-> {}, new_payloads |-> {}, statuses |-> {},
     q_status |-> {}, q_filters |-> {}, q_offsets |-> {}, q_limits |-> {},
     chunks |-> Chunks,
     engine |-> {TRUE}, disk |-> {TRUE}]

\* the state after create_bundle(1, 1, "a", ...) and create_bundle(1, 1, "b", ...)
TwoBundles ==
    /\ rows = {NewRow(1, 1, 1, "a", JTagA, JTagB, "k"), NewRow(2, 1, 1, "b", JTagA, JTagB, "k")}
    /\ nextId = 3
    /\ found_rows = 0
    /\ files = <<>>
    /\ dirs = {}
    /\ pc = [t \in Tasks |-> "idle"]
    /\ loc = [t \in Tasks |-> NoLocals]
    /\ last = [t \in Tasks |-> NoResult]
    /\ given = [id \in {1, 2} |->
                   [gamespace_id |-> 1, data_id |-> 1,
                    bundle_name |-> IF id = 1 THEN "a" ELSE "b", bundle_filters |-> JTagA,
                    bundle_payload |-> JTagB, bundle_key |-> "k"]]

InitConc ==
    /\ TwoBundles
    /\ quota = [create |-> 0, delete |-> MaxDeletes, update |-> 0, upload |-> Cardinality(Pair)]
    /\ world = ConcWorld

NextConc ==
    \/ \E t \in Pair : Release(t)
    \/ \E t \in Pair : get_bundle(t)
    \/ \E t \in Pair : upload_bundle(t)
    \/ \E t \in Pair : producer_push(t)
    \/ \E t \in Pair : producer_done(t)
    \/ \E t \in Pair : upload_update(t)

SpecConc == InitConc /\ [][NextConc]_vars

\* an upload and a delete of the same bundles, interleaved
NextUploadDelete ==
    \/ \E t \in Pair : Release(t)
    \/ \E t \in Pair : delete_bundle(t)
    \/ \E t \in Pair : delete_exec(t)
    \/ \E t \in Pair : upload_bundle(t)
    \/ \E t \in Pair : producer_push(t)
    \/ \E t \in Pair : producer_done(t)
    \/ \E t \in Pair : upload_update(t)

\* an upload racing with a delete: one chunk value is enough
UploadDeleteWorld == [ConcWorld EXCEPT !.chunks = {<<98, 97>>}]

InitUploadDelete ==
    /\ TwoBundles
    /\ quota = [create |-> 0, delete |-> MaxDeletes, update |-> 0, upload |-> Cardinality(Pair)]
    /\ world = UploadDeleteWorld

SpecUploadDelete == InitUploadDelete /\ [][NextUploadDelete]_vars

\* concurrent readers on the shared connection: queries and lookups
QueryConcWorld ==
    [gamespaces |-> {1}, data_ids |-> {1}, names |-> Names, keys |-> {"k"},
     apps |-> {1}, filters |-> {JTagA}, payloads |-> {JTagB},
     new_filters |-> {}, new_payloads |-> {}, statuses |-> {},
     q_status |-> {None}, q_filters |-> {None},
     q_offsets |-> 0..MaxOffset, q_limits |-> 0..MaxLimit,
     chunks |-> {},
     engine |-> BOOLEAN, disk |-> {TRUE}]

InitQueryConc ==
    /\ TwoBundles
    /\ quota = [create |-> 0, delete |-> 0, update |-> 0, upload |-> 0]
    /\ world = QueryConcWorld

NextQueryConc ==
    \/ \E t \in Pair : Release(t)
    \/ \E t \in Pair : get_bundle(t)
    \/ \E t \in Pair : query(t)
    \/ \E t \in Pair : query_count(t)

SpecQueryConc == InitQueryConc /\ [][NextQueryConc]_vars

\* an upload and its retry: caller 1 uploads, caller 2 uploads the same bundle
\* once caller 1's call has ended; the two never overlap
RetryWorld ==
    [gamespaces |-> {1}, data_ids |-> {1}, names |-> {"a"}, keys |-> {"k"},
     apps |-> {1}, filters |-> {JTagA}, payloads |-> {JTagB},
     new_filters |-> {}, new_payloads |-> {}, statuses |-> {},
     q_status |-> {}, q_filters |-> {}, q_offsets |-> {}, q_limits |-> {},
     chunks |-> Chunks,
     engine |-> BOOLEAN, disk |-> BOOLEAN]

InitRetry ==
    /\ Start
    /\ quota = [create |-> 1, delete |-> 0, update |-> 0, upload |-> MaxUploads + 1]
    /\ world = RetryWorld

NextRetry ==
    \/ \E t \in Pair : Release(t)
    \/ create_bundle(1)
    \/ create_insert(1)
    \/ pc[2] = "idle" /\ upload_bundle(1)
    \/ pc[1] = "done" /\ upload_bundle(2)
    \/ \E t \in Pair : producer_push(t)
    \/ \E t \in Pair : producer_fail(t)
    \/ \E t \in Pair : producer_done(t)
    \/ \E t \in Pair : upload_update(t)

SpecRetry == InitRetry /\ [][NextRetry]_vars

\* two gamespaces in one table: every lookup and every mutation, called with
\* either gamespace and any bundle_id
TenantWorld ==
    [gamespaces |-> GameSpaces, data_ids |-> {1}, names |-> {"a"}, keys |-> {"k"},
     apps |-> {1}, filters |-> {JTagA}, payloads |-> {JTagB},
     new_filters |-> {JEmpty}, new_payloads |-> {JNull},
     statuses |-> {STATUS_DELIVERING},
     q_status |-> {None}, q_filters |-> {None}, q_offsets |-> {0}, q_limits |-> {0},
     chunks |-> {<<97>>},
     engine |-> {TRUE}, disk |-> {TRUE}]

InitTenant ==
    /\ Start
    /\ quota = [create |-> MaxId, delete |-> 1, update |-> 1, upload |-> 1]
    /\ world = TenantWorld

NextTenant ==
    \/ Release(1)
    \/ create_bundle(1)
    \/ create_insert(1)
    \/ upload_bundle(1)
    \/ producer_push(1)
    \/ producer_done(1)
    \/ upload_update(1)
    \/ get_bundle(1)
    \/ find_bundle(1)
    \/ list_bundles(1)
    \/ query(1)
    \/ query_count(1)
    \/ update_bundle_properties(1)
    \/ update_bundle(1)
    \/ update_bundle_status(1)
    \/ update_bundle_url(1)
    \/ delete_bundle(1)
    \/ delete_exec(1)

SpecTenant == InitTenant /\ [][NextTenant]_vars

(***************************************************************************)
(* Properties.  The specifications above run one caller (task 1), whose    *)
(* calls follow one another.                                               *)
(***************************************************************************)
R == last[1]
Ended(op) == pc[1] = "done" /\ last[1].op = op
Ends(op) == pc'[1] = "done" /\ pc[1] # "done" /\ last'[1].op = op
RowsOf(gamespace_id, bundle_id) ==
    {r \in rows : r.bundle_id = bundle_id /\ r.gamespace_id = gamespace_id}

\* C1: when upload_bundle returns, the artifact file holds the chunks pushed,
\* concatenated in delivery order, and the record of the bundle has the length
\* of that concatenation as size, its digest as hash, and status UPLOADED.
C1_UploadPublishesWhatItWrote ==
    (Ended("upload_bundle") /\ R.outcome = "return") =>
        LET content == Concat(The(R.note).delivered)
            bundle_file == The(R.note).bundle_file
        IN  /\ bundle_file \in DOMAIN files
            /\ files[bundle_file] = content
            /\ \A r \in RowsOf(R.args.gamespace_id, R.args.bundle.bundle_id) :
                   /\ r.bundle_size = Some(Len(content))
                   /\ r.bundle_hash = Some(Digest(content))
                   /\ r.bundle_status = STATUS_UPLOADED

C1_Witness ==
    /\ Ended("upload_bundle") /\ R.outcome = "return"
    /\ RowsOf(R.args.gamespace_id, R.args.bundle.bundle_id) # {}
    /\ Len(The(R.note).delivered) = 2
    /\ The(R.note).delivered[1] # <<>>
    /\ The(R.note).delivered[2] # <<>>
    /\ The(R.note).delivered[1] # The(R.note).delivered[2]

\* C2: after delete_bundle returns for a bundle that an upload_bundle
\* published, the row is gone and the file upload_bundle writes for that
\* bundle under the app_id of the delete (bundle_path) does not exist.
C2_DeleteRemovesArtifact ==
    (Ended("delete_bundle") /\ R.outcome = "return" /\ The(R.note).status = STATUS_UPLOADED) =>
        /\ RowsOf(R.args.gamespace_id, R.args.bundle_id) = {}
        /\ bundle_path(R.args.app_id, The(R.note).version, The(R.note)) \notin DOMAIN files

\* C3: no two rows share (gamespace_id, version_id, bundle_name); a
\* create_bundle for a name taken in its scope raises and inserts nothing, and
\* with mappings and a healthy engine what it raises is the conflict error.
NoDuplicateNames ==
    \A r1 \in rows, r2 \in rows :
        (r1.gamespace_id = r2.gamespace_id /\ r1.version_id = r2.version_id
            /\ r1.bundle_name = r2.bundle_name) => r1 = r2

CreateOnTakenName ==
    \A r \in rows :
        (/\ pc[1] = "idle" /\ pc'[1] # "idle"
         /\ IF pc'[1] = "done" THEN last'[1].op = "create_bundle" ELSE loc'[1].op = "create_bundle"
         /\ LET a == IF pc'[1] = "done" THEN last'[1].args ELSE loc'[1].args
            IN  /\ r.gamespace_id = a.gamespace_id
                /\ r.version_id = a.data_id
                /\ r.bundle_name = a.bundle_name)
        => /\ pc'[1] = "done"
           /\ last'[1].outcome = "raise"
           /\ last'[1].exc = "BundleError"
           /\ rows' = rows
           /\ (/\ last'[1].args.bundle_filters.t = "dict"
               /\ last'[1].args.bundle_payload.t = "dict"
               /\ last'[1].calls = <<"db.get">>)
              => last'[1].message = "Bundle with such name already exists"

C3_NamesStayUnique == []NoDuplicateNames /\ [][CreateOnTakenName]_vars

C3_Witness ==
    /\ Ended("create_bundle")
    /\ R.message = "Bundle with such name already exists"
    /\ Cardinality(rows) = 2

\* C4: the record find_bundle returns for a name is the one create_bundle
\* inserted under that name: the bundle_id create_bundle returned, status
\* CREATED, the filters, payload and key given, and no hash, url or size.
C4_FindReturnsWhatWasCreated ==
    /\ (Ended("create_bundle") /\ R.outcome = "return") =>
           R.value \in DOMAIN given /\ given[R.value] = R.args
    /\ (Ended("find_bundle") /\ R.outcome = "return") =>
           /\ R.value.bundle_id \in DOMAIN given
           /\ LET a == given[R.value.bundle_id]
              IN  /\ a.gamespace_id = R.args.gamespace_id
                  /\ a.data_id = R.args.data_id
                  /\ a.bundle_name = R.args.bundle_name
                  /\ R.value.version = a.data_id
                  /\ R.value.name = a.bundle_name
                  /\ R.value.status = "CREATED"
                  /\ R.value.filters = a.bundle_filters
                  /\ R.value.payload = a.bundle_payload
                  /\ R.value.key = a.bundle_key
                  /\ R.value.hash = None
                  /\ R.value.url = None
                  /\ R.value.size = None

C4_Witness ==
    /\ Ended("find_bundle") /\ R.outcome = "return"
    /\ R.value.filters = JTagA
    /\ R.value.payload = JTagB
    /\ R.value.bundle_id = 2

\* C5: create_bundle with filters or payload that is not a mapping raises the
\* validation error without a storage-engine call, and the table is unchanged.
NotAMapping(j) == j.t \in {"null", "num", "str", "list"}

C5_RejectedBeforeTheEngine ==
    /\ [](
            (Ended("create_bundle")
                /\ (NotAMapping(R.args.bundle_filters) \/ NotAMapping(R.args.bundle_payload)))
            => /\ R.outcome = "raise"
               /\ R.exc = "BundleError"
               /\ R.message \in {"bundle_filters should be a dict", "bundle_payload should be a dict"}
               /\ R.calls = <<>>)
    /\ [][(Ends("create_bundle")
            /\ (NotAMapping(last'[1].args.bundle_filters) \/ NotAMapping(last'[1].args.bundle_payload)))
           => (rows' = rows /\ nextId' = nextId /\ pc[1] = "idle")]_vars

C5_Witness ==
    /\ Ended("create_bundle")
    /\ R.args.bundle_filters = JTagA
    /\ R.args.bundle_payload = JList
    /\ R.message = "bundle_payload should be a dict"
    /\ rows # {}

\* C6: get_bundle and find_bundle raise NoSuchBundleError exactly when the
\* engine answered and no row has the identity (or name) in the gamespace,
\* raise BundleError exactly when the engine failed, and otherwise return a
\* row with that identity (or name) in that gamespace.
Sought ==
    IF R.op = "get_bundle"
    THEN {r \in rows : r.bundle_id = R.args.bundle_id /\ r.gamespace_id = R.args.gamespace_id}
    ELSE {r \in rows : r.bundle_name = R.args.bundle_name /\ r.version_id = R.args.data_id
                       /\ r.gamespace_id = R.args.gamespace_id}

C6_NotFoundOrFailed ==
    (Ended("get_bundle") \/ Ended("find_bundle")) =>
        /\ (R.exc = "NoSuchBundleError") <=> (R.calls = <<"db.get">> /\ Sought = {})
        /\ (R.exc = "BundleError") <=> (R.calls = <<"db.get: DatabaseError">>)
        /\ R.outcome = "raise" => R.exc \in {"NoSuchBundleError", "BundleError"}
        /\ R.outcome = "return" =>
               \E r \in Sought : R.value.bundle_id = r.bundle_id /\ R.value.name = r.bundle_name

C6_Witness ==
    /\ Ended("get_bundle")
    /\ R.exc = "NoSuchBundleError"
    /\ \E r \in rows : r.bundle_id = R.args.bundle_id

\* C7: once delete_bundle has found the record, it calls os.remove, then the
\* DELETE, whatever os.remove did; when the DELETE succeeds the call returns
\* and the row is gone.
C7_DeleteSurvivesRemoveFailure ==
    (Ended("delete_bundle") /\ R.calls[1] = "db.get" /\ R.exc # "NoSuchBundleError") =>
        /\ Len(R.calls) = 3
        /\ R.calls[2] \in {"os.remove", "os.remove: OSError"}
        /\ R.calls[3] \in {"db.execute", "db.execute: DatabaseError"}
        /\ R.calls[3] = "db.execute" =>
               (R.outcome = "return" /\ RowsOf(R.args.gamespace_id, R.args.bundle_id) = {})
        /\ R.calls[3] # "db.execute" => (R.outcome = "raise" /\ R.exc = "BundleError")

C7_Witness ==
    /\ Ended("delete_bundle") /\ R.outcome = "return"
    /\ R.calls = <<"db.get", "os.remove: OSError", "db.execute">>
    /\ bundle_path(R.args.app_id, The(R.note).version, The(R.note)) \in DOMAIN files

\* C8: a multi-row query returns, of the N rows its conditions match ranked by
\* descending bundle_id, the ranks offset+1 .. min(offset+limit, N) when limit
\* is positive and all N when limit is 0; the count it reports is N.
C8_PageOfTheRanking ==
    (Ended("query") /\ ~R.args.one /\ R.outcome = "return") =>
        LET q == R.args.q
            matching == {r \in rows : values(q, r)}
            N == Cardinality(matching)
            Rank(r) == 1 + Cardinality({x \in matching : x.bundle_id > r.bundle_id})
            items == IF R.args.count THEN R.value.items ELSE R.value
            first == IF q.limit > 0 THEN q.offset + 1 ELSE 1
            lastRank == IF q.limit > 0
                        THEN (IF q.offset + q.limit < N THEN q.offset + q.limit ELSE N)
                        ELSE N
        IN  /\ Len(items) = (IF lastRank >= first THEN lastRank - first + 1 ELSE 0)
            /\ \A i \in 1..Len(items) :
                   \E r \in matching : Rank(r) = first + i - 1 /\ items[i] = BundleAdapter(r)
            /\ R.args.count => R.value.count = N

C8_Witness ==
    /\ Ended("query") /\ ~R.args.one /\ R.outcome = "return" /\ R.args.count
    /\ R.args.q.limit = 1 /\ R.args.q.offset = 1
    /\ R.value.count = 2
    /\ Len(R.value.items) = 1
    /\ R.value.items[1].bundle_id = 1

\* C9: update_bundle_status changes nothing but bundle_status, and only on the
\* row of its bundle_id and gamespace_id; called with the status the row
\* already has (a second call after a first) it leaves the table as it is.
NoStatus(rs) == {[r EXCEPT !.bundle_status = ""] : r \in rs}

StatusOnly ==
    Ends("update_bundle_status") =>
        LET a == last'[1].args
            hit(r) == r.bundle_id = a.bundle_id /\ r.gamespace_id = a.gamespace_id
        IN  /\ NoStatus(rows') = NoStatus(rows)
            /\ Cardinality(rows') = Cardinality(rows)
            /\ \A r \in rows : ~hit(r) => r \in rows'
            /\ last'[1].outcome = "return" =>
                   \A r \in rows' : hit(r) => r.bundle_status = a.bundle_status
            /\ (\A r \in rows : hit(r) => r.bundle_status = a.bundle_status) => rows' = rows

C9_StatusAloneAndIdempotent == [][StatusOnly]_vars

C9_Witness ==
    /\ Ended("update_bundle_status") /\ R.outcome = "return"
    /\ R.note = Some(0)
    /\ \E r \in RowsOf(R.args.gamespace_id, R.args.bundle_id) :
           r.bundle_hash # None /\ r.bundle_size # None /\ r.bundle_status = "DELIVERING"

\* C10: when the producer fails, upload_bundle raises without a metadata
\* UPDATE: no step of the call changes the table, and the file holds the
\* chunks delivered before the failure.
NoPublish ==
    (\/ pc'[1] = "upload_produce"
     \/ (Ends("upload_bundle") /\ last'[1].exc = "ProducerError"))
    => rows' = rows

C10_FailedUploadPublishesNothing ==
    /\ [](
            (Ended("upload_bundle") /\ R.exc = "ProducerError") =>
               /\ R.outcome = "raise"
               /\ \A i \in 1..Len(R.calls) : R.calls[i] \in {"open", "write"}
               /\ The(R.note).bundle_file \in DOMAIN files
               /\ files[The(R.note).bundle_file] = Concat(The(R.note).delivered))
    /\ [][NoPublish]_vars

C10_Witness ==
    /\ Ended("upload_bundle") /\ R.exc = "ProducerError"
    /\ Len(Concat(The(R.note).delivered)) = 2
    /\ RowsOf(R.args.gamespace_id, R.args.bundle.bundle_id) # {}

\* C11: whichever storage-engine call of a query fails, the SELECT or the
\* FOUND_ROWS() read, the query raises BundleQueryError with the engine's message.
C11_EngineFailureIsQueryError ==
    (Ended("query") /\ \E i \in 1..Len(R.calls) :
                          R.calls[i] \in {"db.get: DatabaseError", "db.query: DatabaseError"}) =>
        /\ R.outcome = "raise"
        /\ R.exc = "BundleQueryError"
        /\ R.message \in {"Failed to get message: " \o DbMessage,
                          "Failed to query messages: " \o DbMessage}

\* C12: the uniqueness check of create_bundle reads the table before the
\* suspension and the INSERT after it does not look again: whenever the engine
\* accepts the INSERT a row is added, also when a row of that name has appeared
\* meanwhile; two rows sharing (gamespace_id, version_id, bundle_name) are reachable.
InsertDoesNotLookAgain ==
    \A t \in Tasks :
        /\ (pc[t] = "idle" /\ pc'[t] = "create_insert") =>
               ~ \E r \in rows : /\ r.gamespace_id = loc'[t].args.gamespace_id
                                  /\ r.version_id = loc'[t].args.data_id
                                  /\ r.bundle_name = loc'[t].args.bundle_name
        /\ (pc[t] = "create_insert" /\ pc'[t] = "done") =>
               \/ /\ last'[t].outcome = "raise"
                  /\ last'[t].message = "Failed to create bundle: " \o DbMessage
                  /\ rows' = rows
               \/ /\ last'[t].outcome = "return"
                  /\ Cardinality(rows') = Cardinality(rows) + 1
                  /\ \E r \in rows' \ rows :
                        /\ r.bundle_id = last'[t].value
                        /\ r.gamespace_id = loc[t].args.gamespace_id
                        /\ r.version_id = loc[t].args.data_id
                        /\ r.bundle_name = loc[t].args.bundle_name

C12_CheckThenInsertRaces == [][InsertDoesNotLookAgain]_vars

C12_Witness ==
    \E r1 \in rows, r2 \in rows :
        /\ r1.bundle_id # r2.bundle_id
        /\ r1.gamespace_id = r2.gamespace_id
        /\ r1.version_id = r2.version_id
        /\ r1.bundle_name = r2.bundle_name

\* C13 as stated: in every reachable state a record whose status is CREATED
\* has no hash and no size.
C13_CreatedHasNoHashOrSize ==
    \A r \in rows :
        r.bundle_status = "CREATED" => (r.bundle_hash = None /\ r.bundle_size = None)

\* C13, amended: create_bundle, upload_bundle, update_bundle_properties and
\* delete_bundle keep "a CREATED record has no hash and no size"; only the
\* three updates that write a caller-given status can break it.
WritesGivenStatus ==
    \/ Ends("update_bundle")
    \/ Ends("update_bundle_status")
    \/ Ends("update_bundle_url")

C13_LifecycleKeepsCreatedBare ==
    [][(C13_CreatedHasNoHashOrSize /\ ~WritesGivenStatus) => C13_CreatedHasNoHashOrSize']_vars

C13_Witness ==
    /\ Ended("upload_bundle") /\ R.exc = "ProducerError"
    /\ The(R.note).delivered # <<>>
    /\ \E r \in RowsOf(R.args.gamespace_id, R.args.bundle.bundle_id) :
           r.bundle_status = "CREATED" /\ r.bundle_hash = None /\ r.bundle_size = None
                /\ r.bundle_filters = dumps(JEmpty)

\* C14: within one upload_bundle call the record changes in exactly one step,
\* the UPDATE issued after the producer has completed and the file has been
\* closed, and that step sets hash, status UPLOADED and size together, to the
\* digest and length of everything delivered (which is what the file holds);
\* opening the file, every chunk write and the close leave the record alone,
\* so a get_bundle that returns while the upload is at a suspension point
\* returns the record exactly as the upload was given it.
Uploading(t) == pc[t] \in {"upload_produce", "upload_update"}
OnlyUploadSoFar == quota.upload = Cardinality(Pair) - 1

PublishedOnlyAtTheEnd ==
    \A t \in Pair :
        /\ (pc[t] = "idle" /\ pc'[t] = "upload_produce") => rows' = rows
        /\ (pc[t] = "upload_produce" /\ pc'[t] = "upload_produce" /\ loc'[t] # loc[t]) =>
               rows' = rows
        /\ (pc[t] = "upload_produce" /\ pc'[t] = "upload_update") =>
               /\ rows' = rows
               /\ loc'[t].calls[Len(loc'[t].calls)] = "close"
        /\ (pc[t] = "upload_update" /\ pc'[t] = "done" /\ last'[t].outcome = "return") =>
               LET content == Concat(loc[t].delivered)
                   a == loc[t].args
                   hit(r) == r.bundle_id = a.bundle.bundle_id /\ r.gamespace_id = a.gamespace_id
               IN  /\ loc[t].calls[Len(loc[t].calls)] = "close"
                   /\ rows' = {IF hit(r)
                               THEN [r EXCEPT !.bundle_hash = Some(Digest(content)),
                                              !.bundle_status = "UPLOADED",
                                              !.bundle_size = Some(Len(content))]
                               ELSE r : r \in rows}
                   /\ OnlyUploadSoFar => files[loc[t].bundle_file] = content
        /\ \A u \in Pair \ {t} :
               (/\ Uploading(t) /\ OnlyUploadSoFar
                /\ pc[u] = "idle" /\ pc'[u] = "done"
                /\ last'[u].op = "get_bundle" /\ last'[u].outcome = "return"
                /\ last'[u].value.bundle_id = loc[t].args.bundle.bundle_id) =>
                   last'[u].value = loc[t].args.bundle

C14_PublishedOnlyAtTheEnd == [][PublishedOnlyAtTheEnd]_vars

C14_Witness ==
    \E t \in Pair, u \in Pair :
        /\ pc[t] = "upload_produce" /\ Len(loc[t].delivered) = MaxChunks
        /\ OnlyUploadSoFar
        /\ pc[u] = "done" /\ last[u].op = "get_bundle" /\ last[u].outcome = "return"
        /\ last[u].value = loc[t].args.bundle
        /\ last[u].value.status = "CREATED" /\ last[u].value.hash = None

\* C15: two upload_bundle calls on different bundle_ids, interleaved in any
\* order, write different paths; while both are in flight each file holds the
\* chunks its own upload has delivered so far, and when both have returned each
\* file holds its own upload's chunks in delivery order and each record the
\* digest and length of its own chunks, with status UPLOADED.
UploadOf(t) ==
    IF Uploading(t)
    THEN [bundle_id |-> loc[t].args.bundle.bundle_id, bundle_file |-> loc[t].bundle_file,
          delivered |-> loc[t].delivered, returned |-> FALSE]
    ELSE [bundle_id |-> last[t].args.bundle.bundle_id, bundle_file |-> The(last[t].note).bundle_file,
          delivered |-> The(last[t].note).delivered, returned |-> TRUE]

InUpload(t) ==
    \/ Uploading(t)
    \/ pc[t] = "done" /\ last[t].op = "upload_bundle" /\ last[t].outcome = "return"

C15_UploadsOfDifferentBundlesAreIndependent ==
    \A t \in Pair, u \in Pair :
        (/\ t # u /\ InUpload(t) /\ InUpload(u)
         /\ UploadOf(t).bundle_id # UploadOf(u).bundle_id) =>
            LET mine == UploadOf(t)
                content == Concat(mine.delivered)
            IN  /\ mine.bundle_file # UploadOf(u).bundle_file
                /\ files[mine.bundle_file] = content
                /\ mine.returned =>
                       \E r \in rows :
                           /\ r.bundle_id = mine.bundle_id
                           /\ r.bundle_hash = Some(Digest(content))
                           /\ r.bundle_size = Some(Len(content))
                           /\ r.bundle_status = "UPLOADED"

C15_Witness ==
    /\ \A t \in Pair : pc[t] = "done" /\ last[t].op = "upload_bundle" /\ last[t].outcome = "return"
    /\ last[1].args.bundle.bundle_id # last[2].args.bundle.bundle_id
    /\ Len(The(last[1].note).delivered) = MaxChunks
    /\ Len(The(last[2].note).delivered) = 1
    /\ Concat(The(last[1].note).delivered) # Concat(The(last[2].note).delivered)
    /\ \A t \in Pair : files[The(last[t].note).bundle_file] = Concat(The(last[t].note).delivered)

\* C20: the UPDATE that ends upload_bundle never adds a row, and when the
\* engine accepts it the call returns also when no row matches; once a
\* delete_bundle and an upload_bundle of the same bundle have both returned,
\* in whatever order their steps were interleaved, the bundle has no row and
\* the file the upload wrote is still on disk.
PublishAddsNoRow ==
    \A t \in Pair :
        (pc[t] = "upload_update" /\ pc'[t] = "done") =>
            /\ {r.bundle_id : r \in rows'} = {r.bundle_id : r \in rows}
            /\ Cardinality(rows') = Cardinality(rows)
            /\ last'[t].calls[Len(last'[t].calls)] = "db.execute" => last'[t].outcome = "return"
            /\ RowsOf(loc[t].args.gamespace_id, loc[t].args.bundle.bundle_id) = {} => rows' = rows

DeletedWhileUploaded ==
    \A t \in Pair, u \in Pair :
        (/\ pc[t] = "done" /\ last[t].op = "upload_bundle" /\ last[t].outcome = "return"
         /\ pc[u] = "done" /\ last[u].op = "delete_bundle" /\ last[u].outcome = "return"
         /\ last[u].args.bundle_id = last[t].args.bundle.bundle_id
         /\ last[u].args.gamespace_id = last[t].args.gamespace_id) =>
            /\ RowsOf(last[t].args.gamespace_id, last[t].args.bundle.bundle_id) = {}
            /\ The(last[t].note).bundle_file \in DOMAIN files
            /\ OnlyUploadSoFar =>
                   files[The(last[t].note).bundle_file] = Concat(The(last[t].note).delivered)

C20_UploadOutlivesDelete == []DeletedWhileUploaded /\ [][PublishAddsNoRow]_vars

C20_Witness ==
    \E t \in Pair, u \in Pair :
        /\ pc[t] = "done" /\ last[t].op = "upload_bundle" /\ last[t].outcome = "return"
        /\ The(last[t].note).matched = 0
        /\ The(last[t].note).delivered # <<>>
        /\ pc[u] = "done" /\ last[u].op = "delete_bundle" /\ last[u].outcome = "return"
        /\ last[u].args.bundle_id = last[t].args.bundle.bundle_id
        /\ RowsOf(last[t].args.gamespace_id, last[t].args.bundle.bundle_id) = {}
        /\ files[The(last[t].note).bundle_file] = Concat(The(last[t].note).delivered)

\* C16: a multi-row query with count returns as count the number of rows that
\* match its own conditions, whatever the page, also when another caller has
\* issued a SELECT on the connection while the query was in progress.
C16_CountIsOfItsOwnQuery ==
    \A t \in Pair :
        (/\ pc[t] = "done" /\ last[t].op = "query" /\ last[t].outcome = "return"
         /\ ~last[t].args.one /\ last[t].args.count) =>
            last[t].value.count = Cardinality({r \in rows : values(last[t].args.q, r)})

\* C17: update_bundle_properties changes nothing but bundle_filters and
\* bundle_payload, and only on the row of its bundle_id and gamespace_id,
\* whatever the status of that row; when it returns, that row holds the
\* filters and payload given; when filters is not a mapping it raises
\* BundleError "bundle_filters should be a dict" before any engine call and
\* the table is as it was.
PropertiesOnly ==
    Ends("update_bundle_properties") =>
        LET a == last'[1].args
            hit(r) == r.bundle_id = a.bundle_id /\ r.gamespace_id = a.gamespace_id
        IN  /\ Cardinality(rows') = Cardinality(rows)
            /\ \A r \in rows : ~hit(r) => r \in rows'
            /\ \A r \in rows : hit(r) =>
                   \E n \in rows' : n = [r EXCEPT !.bundle_filters = n.bundle_filters,
                                                  !.bundle_payload = n.bundle_payload]
            /\ last'[1].outcome = "return" =>
                   \A n \in rows' : hit(n) => /\ n.bundle_filters = dumps(a.bundle_filters)
                                              /\ n.bundle_payload = dumps(a.bundle_payload)
            /\ NotAMapping(a.bundle_filters) =>
                   /\ last'[1].outcome = "raise"
                   /\ last'[1].exc = "BundleError"
                   /\ last'[1].message = "bundle_filters should be a dict"
                   /\ last'[1].calls = <<>>
                   /\ rows' = rows

C17_PropertiesAlone == [][PropertiesOnly]_vars

C17_Witness ==
    /\ Ended("update_bundle_properties") /\ R.outcome = "return"
    /\ \E r \in RowsOf(R.args.gamespace_id, R.args.bundle_id) :
           /\ r.bundle_status = "UPLOADED"
           /\ r.bundle_hash # None /\ r.bundle_size # None
           /\ r.bundle_filters = dumps(R.args.bundle_filters)
           /\ r.bundle_filters # dumps(given[r.bundle_id].bundle_filters)
           /\ r.bundle_payload = dumps(R.args.bundle_payload)

\* C18: opening the artifact for an upload empties it whatever an earlier
\* upload left there, so when an upload_bundle that follows one whose producer
\* failed after k chunks returns, the file is exactly the chunks of this second
\* upload (also when they are fewer bytes than the first wrote) and the record
\* has status UPLOADED with the digest and length of the second upload.
FailedMidStream(t) ==
    /\ pc[t] = "done" /\ last[t].op = "upload_bundle"
    /\ last[t].outcome = "raise" /\ last[t].exc = "ProducerError"

RetryReturned(t, u) ==
    /\ FailedMidStream(t)
    /\ pc[u] = "done" /\ last[u].op = "upload_bundle" /\ last[u].outcome = "return"
    /\ last[u].args.bundle.bundle_id = last[t].args.bundle.bundle_id
    /\ last[u].args.app_id = last[t].args.app_id

OpenTruncates ==
    (pc[2] = "idle" /\ pc'[2] = "upload_produce") =>
        /\ loc'[2].bundle_file \in DOMAIN files'
        /\ files'[loc'[2].bundle_file] = <<>>

RetryLeavesOnlyItsOwn ==
    RetryReturned(1, 2) =>
        LET first == The(last[1].note)
            second == The(last[2].note)
            content == Concat(second.delivered)
        IN  /\ second.bundle_file = first.bundle_file
            /\ files[second.bundle_file] = content
            /\ \A r \in RowsOf(last[2].args.gamespace_id, last[2].args.bundle.bundle_id) :
                   /\ r.bundle_status = "UPLOADED"
                   /\ r.bundle_hash = Some(Digest(content))
                   /\ r.bundle_size = Some(Len(content))
            /\ RowsOf(last[2].args.gamespace_id, last[2].args.bundle.bundle_id) # {}

C18_RetryOverwrites == []RetryLeavesOnlyItsOwn /\ [][OpenTruncates]_vars

C18_Witness ==
    /\ RetryReturned(1, 2)
    /\ Len(The(last[1].note).delivered) = MaxChunks
    /\ Len(The(last[2].note).delivered) = 1
    /\ Len(Concat(The(last[2].note).delivered)) < Len(Concat(The(last[1].note).delivered))
    /\ files[The(last[2].note).bundle_file] = Concat(The(last[2].note).delivered)
    /\ last[2].args.bundle.status = "CREATED"

\* C19: get_bundle, find_bundle, list_bundles and BundleQuery.query called
\* with gamespace g return only records whose row belongs to g; every step of
\* update_bundle, update_bundle_status, update_bundle_url,
\* update_bundle_properties and delete_bundle called with gamespace g leaves
\* the rows of every other gamespace, and the files of their bundles, as they
\* were, also when the bundle_id given is that of another gamespace's row.
Lookups == {"get_bundle", "find_bundle", "list_bundles", "query"}
Mutations == {"update_bundle", "update_bundle_status", "update_bundle_url",
              "update_bundle_properties", "delete_bundle"}

Shown ==
    IF R.op \in {"get_bundle", "find_bundle"} THEN {R.value}
    ELSE IF R.op = "list_bundles" THEN {R.value[i] : i \in 1..Len(R.value)}
    ELSE IF R.args.one THEN R.value
    ELSE IF R.args.count THEN {R.value.items[i] : i \in 1..Len(R.value.items)}
    ELSE {R.value[i] : i \in 1..Len(R.value)}

AskedFor == IF R.op = "query" THEN R.args.q.gamespace_id ELSE R.args.gamespace_id

LookupsStayInside ==
    (pc[1] = "done" /\ R.op \in Lookups /\ R.outcome = "return") =>
        \A b \in Shown :
            /\ \E r \in rows : r.gamespace_id = AskedFor /\ b = BundleAdapter(r)
            /\ \A r \in rows : r.bundle_id = b.bundle_id => r.gamespace_id = AskedFor

StepCall ==
    IF pc[1] = "idle"
    THEN IF pc'[1] = "done" THEN last'[1] ELSE loc'[1]
    ELSE loc[1]

ArtifactsOf(r) ==
    {bundle_path(app_id, r.version_id, BundleAdapter(r)) : app_id \in world.apps}

MutationsStayInside ==
    (pc[1] # "done" /\ pc'[1] # pc[1] /\ StepCall.op \in Mutations) =>
        \A r \in rows :
            r.gamespace_id # StepCall.args.gamespace_id =>
                /\ r \in rows'
                /\ \A f \in ArtifactsOf(r) :
                       /\ f \in DOMAIN files <=> f \in DOMAIN files'
                       /\ f \in DOMAIN files => files'[f] = files[f]

C19_TenantIsolation == []LookupsStayInside /\ [][MutationsStayInside]_vars

C19_Witness ==
    /\ Ended("update_bundle_status") /\ R.outcome = "return"
    /\ \E r \in rows :
           /\ r.bundle_id = R.args.bundle_id
           /\ r.gamespace_id # R.args.gamespace_id
           /\ r.bundle_status = "UPLOADED" /\ r.bundle_status # R.args.bundle_status
           /\ \E f \in ArtifactsOf(r) : f \in DOMAIN files /\ files[f] # <<>>
    /\ \E r \in rows : r.gamespace_id = R.args.gamespace_id

====
